---- MODULE Spec2Model ----
(***************************************************************************)
(* A model of sync.py, the iCloud shared album sync: the derivative        *)
(* selector (pick_best_download_url_from_asset), the fetch and validator   *)
(* (download_file), the retention manager (prune_files), the mirror        *)
(* reconciler (mirror_missing_files) and the per-album driver (sync_album).*)
(*                                                                         *)
(* Python strings are sequences of one-character strings, so that lower(), *)
(* substring tests, startswith/endswith, split and basename are computed   *)
(* on the characters.  An absent value (None, a missing header, a missing  *)
(* dictionary key) and the empty string are both the empty sequence: the   *)
(* code tests them alike ("if not url", "x or y", "if location").          *)
(***************************************************************************)
EXTENDS Integers, Sequences, FiniteSets, TLC

VARIABLES
  \* the selector
  asset,        \* the asset descriptor handed to the selector
  selected,     \* "no" before the selector ran, "yes" after
  sel,          \* what the selector returned: the URL (or None), with the
                \* step that returned and the candidate it chose
  \* one album sync
  pc,           \* where sync_album / download_file stands
  media_urls,   \* the list fetch_album_media returned
  idx,          \* position of the for loop of sync_album in media_urls
  dir,          \* the destination directory: name -> entry, or Absent
  clock,        \* the time of the download_file call in progress, on the
                \* scale of the modification times (their order matters only)
  keep_days, max_files, mirror_missing,   \* the run's retention policy
  cutoff,       \* now - keep_days on the modification clock
  downloaded_filenames,  \* sync_album's list of the same name
  fetch,        \* the locals of the download_file call in progress
  attempts,     \* per position of media_urls: calls of download_file so far
  ledger0,      \* the ledger's entries when the run began
  accepted,     \* this run's accepted downloads, most recent first
  before,       \* the directory as prune_files or mirror_missing_files,
                \* whichever ran last, found it
  last          \* how the last call of download_file returned, and the
                \* answer to its HEAD request when that made it return

vars == << asset, selected, sel, pc, media_urls, idx, dir, clock, keep_days,
           max_files, mirror_missing, cutoff, downloaded_filenames, fetch,
           attempts, ledger0, accepted, before, last >>

selVars == << asset, selected, sel >>

syncVars == << pc, media_urls, idx, dir, clock, keep_days, max_files,
               mirror_missing, cutoff, downloaded_filenames, fetch, attempts,
               ledger0, accepted, before, last >>

\* Python's None as a return value: no string of characters equals it.
None == <<"None">>

\* None where a candidate is expected: a candidate's url is never empty.
NoCandidate == [url |-> <<>>, w |-> 0, h |-> 0, key |-> <<>>, size |-> 0]

(***************************************************************************)
(* Strings                                                                 *)
(***************************************************************************)
UpperAlpha ==
  <<"A","B","C","D","E","F","G","H","I","J","K","L","M","N","O","P","Q","R",
    "S","T","U","V","W","X","Y","Z">>

LowerAlpha ==
  <<"a","b","c","d","e","f","g","h","i","j","k","l","m","n","o","p","q","r",
    "s","t","u","v","w","x","y","z">>

Digits == <<"0","1","2","3","4","5","6","7","8","9">>

LowerChar(c) ==
  IF \E i \in DOMAIN UpperAlpha : UpperAlpha[i] = c
    THEN LowerAlpha[CHOOSE i \in DOMAIN UpperAlpha : UpperAlpha[i] = c]
    ELSE c

\* str.lower()
Lower(s) == [i \in DOMAIN s |-> LowerChar(s[i])]

\* sub in s
Contains(s, sub) ==
  \E i \in 1..(Len(s) - Len(sub) + 1) : SubSeq(s, i, i + Len(sub) - 1) = sub

\* s.startswith(p), s.endswith(p)
StartsWith(s, p) == Len(p) <= Len(s) /\ SubSeq(s, 1, Len(p)) = p

EndsWith(s, p) ==
  Len(p) <= Len(s) /\ SubSeq(s, Len(s) - Len(p) + 1, Len(s)) = p

\* s.split(c)[0]: the part of s before the first c
BeforeFirst(s, c) ==
  IF \E i \in DOMAIN s : s[i] = c
    THEN SubSeq(s, 1, (CHOOSE i \in DOMAIN s :
                         s[i] = c /\ \A j \in 1..(i - 1) : s[j] # c) - 1)
    ELSE s

\* os.path.basename(p): the part of p after the last "/"
Basename(p) ==
  IF \E i \in DOMAIN p : p[i] = "/"
    THEN SubSeq(p, (CHOOSE i \in DOMAIN p :
                      p[i] = "/" /\ \A j \in (i + 1)..Len(p) : p[j] # "/") + 1,
                Len(p))
    ELSE p

\* s.strip('"')
RECURSIVE StripQuotes(_)
StripQuotes(s) ==
  IF s = <<>> THEN s
  ELSE IF Head(s) = "\"" THEN StripQuotes(Tail(s))
  ELSE IF s[Len(s)] = "\"" THEN StripQuotes(SubSeq(s, 1, Len(s) - 1))
  ELSE s

IsDigit(c) == \E i \in DOMAIN Digits : Digits[i] = c

DigitValue(c) == (CHOOSE i \in DOMAIN Digits : Digits[i] = c) - 1

(***************************************************************************)
(* Program constants                                                       *)
(***************************************************************************)
MIN_LONG_EDGE == 2000

MIN_FILESIZE_BYTES == 300 * 1024

\* resp.iter_content(8192)
CHUNK_SIZE == 8192

THUMB_HINTS ==
  { <<"t","h","u","m","b">>,
    <<"t","h","u","m","b","n","a","i","l">>,
    <<"s","q","u","a","r","e">>,
    <<"p","o","s","t","e","r">>,
    <<"p","r","e","v","i","e","w">>,
    <<"s","m","a","l","l">>,
    <<"m","i","n","i">>,
    <<"t","i","l","e">>,
    <<"l","o","w">>,
    <<"t","i","n","y">> }

VIDEO_EXTS ==
  { <<".","m","p","4">>,
    <<".","m","o","v">>,
    <<".","m","4","v">>,
    <<".","h","e","v","c">> }

PREFERRED_ORIGINAL_KEYS ==
  << <<"r","e","s","o","r","i","g","i","n","a","l">>,
     <<"o","r","i","g","i","n","a","l">>,
     <<"r","e","s","j","p","e","g","f","u","l","l">>,
     <<"f","u","l","l","r","e","s">>,
     <<"m","a","s","t","e","r">>,
     <<"r","e","s","f","u","l","l">>,
     <<"p","u","b","l","i","c","s","h","a","r","e","g","e","n","e","r","i","c",
       "l","a","r","g","e">> >>

HTTP == <<"h","t","t","p",":","/","/">>

HTTPS == <<"h","t","t","p","s",":","/","/">>

(***************************************************************************)
(* The derivative selector                                                 *)
(***************************************************************************)
_is_thumbish_name(name) ==
  LET low == Lower(name) IN \E h \in THUMB_HINTS : Contains(low, h)

_full_url(location, path) ==
  IF StartsWith(path, HTTP) \/ StartsWith(path, HTTPS) THEN path
  ELSE IF location # <<>>
    THEN HTTPS \o location \o (IF StartsWith(path, <<"/">>) THEN path
                               ELSE <<"/">> \o path)
  ELSE path

\* int(v) of a string of decimal digits
RECURSIVE _get_int(_)
_get_int(v) ==
  IF v = <<>> THEN 0
  ELSE 10 * _get_int(SubSeq(v, 1, Len(v) - 1)) + DigitValue(v[Len(v)])

\* The last position of the run of digits that starts at position i of s.
DigitRunEnd(s, i) ==
  CHOOSE e \in i..Len(s) :
    /\ \A j \in i..e : IsDigit(s[j])
    /\ (e = Len(s) \/ ~IsDigit(s[e + 1]))

\* DIM_IN_KEY, (\d+)[xX](\d+), matches at position i of s.
DimMatchAt(s, i) ==
  /\ IsDigit(s[i])
  /\ LET e == DigitRunEnd(s, i)
     IN  /\ e + 2 <= Len(s)
         /\ s[e + 1] \in {"x", "X"}
         /\ IsDigit(s[e + 2])

\* DIM_IN_KEY.search(key): the leftmost match, both groups greedy.
_dimensions_from_key(key) ==
  IF \E i \in DOMAIN key : DimMatchAt(key, i)
    THEN LET i == CHOOSE i \in DOMAIN key :
                    DimMatchAt(key, i) /\ \A j \in 1..(i - 1) : ~DimMatchAt(key, j)
             e == DigitRunEnd(key, i)
         IN  << _get_int(SubSeq(key, i, e)),
                _get_int(SubSeq(key, e + 2, DigitRunEnd(key, e + 2))) >>
    ELSE << 0, 0 >>

\* A derivative is the pair (k, v) of asset["derivatives"].items(), as one
\* record: v's url, fileName, derivativeType, width, height and fileSize
\* (each with its alternative spelling), and the key k.
_candidate_from_derivative(d, location) ==
  IF d.url = <<>> THEN NoCandidate
  ELSE
    LET url_full == _full_url(location, d.url)
        kdims    == _dimensions_from_key(d.key)
        known    == d.width # 0 /\ d.height # 0
        fromKey  == ~known /\ kdims[1] # 0 /\ kdims[2] # 0
    IN  IF \/ _is_thumbish_name(d.key)
           \/ _is_thumbish_name(d.fileName)
           \/ _is_thumbish_name(d.derivativeType)
           \/ _is_thumbish_name(url_full)
          THEN NoCandidate
          ELSE [ url  |-> url_full,
                 w    |-> IF fromKey THEN kdims[1] ELSE d.width,
                 h    |-> IF fromKey THEN kdims[2] ELSE d.height,
                 key  |-> d.key,
                 size |-> d.fileSize ]

Max(a, b) == IF a >= b THEN a ELSE b

IsVideoUrl(url) == \E ext \in VIDEO_EXTS : EndsWith(Lower(url), ext)

\* _meets_fullsize_floor without the size test for photos (lines 132-133)
MeetsFloorIgnoringSize(c) ==
  LET long_edge == Max(c.w, c.h)
  IN  IF IsVideoUrl(c.url)
        THEN c.size = 0 \/ c.size >= MIN_FILESIZE_BYTES
        ELSE ~(long_edge < MIN_LONG_EDGE)

_meets_fullsize_floor(c) ==
  LET long_edge == Max(c.w, c.h)
  IN  IF IsVideoUrl(c.url)
        THEN c.size = 0 \/ c.size >= MIN_FILESIZE_BYTES
        ELSE /\ ~(long_edge < MIN_LONG_EDGE)
             /\ ~(c.size # 0 /\ c.size < MIN_FILESIZE_BYTES)

\* lines 140-146: the candidates, in the derivatives' iteration order
RECURSIVE Candidates(_, _)
Candidates(derivatives, location) ==
  IF derivatives = <<>> THEN <<>>
  ELSE LET cand == _candidate_from_derivative(Head(derivatives), location)
           rest == Candidates(Tail(derivatives), location)
       IN  IF cand = NoCandidate THEN rest ELSE <<cand>> \o rest

\* lines 150-152 for one preferred key
PrefMatches(candidates, pref) ==
  { i \in DOMAIN candidates :
      /\ candidates[i].key # <<>>
      /\ Lower(candidates[i].key) = pref
      /\ _meets_fullsize_floor(candidates[i]) }

\* Lines 148-152 with the loops exchanged: the first candidate, in the
\* catalog's order, whose key is any preferred key.
PreferredOriginalCatalogOrder(candidates) ==
  LET m == UNION { PrefMatches(candidates, PREFERRED_ORIGINAL_KEYS[p]) :
                     p \in DOMAIN PREFERRED_ORIGINAL_KEYS }
  IN  IF m = {} THEN NoCandidate
      ELSE candidates[CHOOSE i \in m : \A j \in m : i <= j]

\* 1) lines 148-152: the candidate the nested loops return, or None
PreferredOriginal(candidates) ==
  LET hits == { p \in DOMAIN PREFERRED_ORIGINAL_KEYS :
                  PrefMatches(candidates, PREFERRED_ORIGINAL_KEYS[p]) # {} }
  IN  IF hits = {} THEN NoCandidate
      ELSE LET p == CHOOSE p \in hits : \A q \in hits : p <= q
               m == PrefMatches(candidates, PREFERRED_ORIGINAL_KEYS[p])
           IN  candidates[CHOOSE i \in m : \A j \in m : i <= j]

\* the sort key of line 157 compared: (w * h, size) of a below that of b
KeyLess(a, b) ==
  \/ a.w * a.h < b.w * b.h
  \/ (a.w * a.h = b.w * b.h /\ a.size < b.size)

\* 2) lines 154-158: max() returns the first of the greatest
LargestFullsize(candidates) ==
  LET ok == { i \in DOMAIN candidates : _meets_fullsize_floor(candidates[i]) }
  IN  IF ok = {} THEN NoCandidate
      ELSE candidates[CHOOSE i \in ok :
                        /\ \A j \in ok : ~KeyLess(candidates[i], candidates[j])
                        /\ \A j \in ok : j < i => KeyLess(candidates[j], candidates[i])]

\* 3) lines 160-165
FallbackUrl(a) ==
  IF a.url_path # <<>> /\ ~_is_thumbish_name(a.url_path)
    THEN _full_url(a.url_location, a.url_path)
    ELSE None

NoSelection == [url |-> None, step |-> 0, cand |-> NoCandidate]

\* lines 136-168: the URL returned (or None), with the step that returns it
\* (1 to 4) and, for steps 1 and 2, the candidate whose URL it is.
Selection(a) ==
  LET candidates == Candidates(a.derivatives, a.url_location)
      preferred  == PreferredOriginal(candidates)
      best       == LargestFullsize(candidates)
      fallback   == FallbackUrl(a)
  IN  IF preferred # NoCandidate
        THEN [url |-> preferred.url, step |-> 1, cand |-> preferred]
      ELSE IF best # NoCandidate
        THEN [url |-> best.url, step |-> 2, cand |-> best]
      ELSE IF fallback # None
        THEN [url |-> fallback, step |-> 3, cand |-> NoCandidate]
      ELSE [url |-> None, step |-> 4, cand |-> NoCandidate]

pick_best_download_url_from_asset(a) == Selection(a).url

(***************************************************************************)
(* The selector's inputs                                                   *)
(***************************************************************************)
\* The most derivatives an asset of the model offers.
MaxDerivs == 2

K_original == <<"o","r","i","g","i","n","a","l">>

K_Master == <<"M","a","s","t","e","r">>

K_dims == <<"r","3","0","0","0","X","9">>

K_tiny == <<"T","i","n","y">>

DerivativeKeys == { K_original, K_Master, K_dims, K_tiny }

U_a == <<"/","a",".","j","p","g">>

U_c == <<"c",".","j","p","g">>

U_mov == <<"/","b",".","M","O","V">>

U_low == <<"/","l","o","w",".","j","p","g">>

U_abs == <<"h","t","t","p","s",":","/","/","x","/","e",".","j","p","g">>

N_poster == <<"P","o","s","t","e","r",".","j","p","g">>

T_tile == <<"t","i","l","e">>

L_host == <<"h">>

L_low == <<"l","o","w",".","h">>

DV(u, f, t, w, h, s) ==
  [url |-> u, fileName |-> f, derivativeType |-> t, width |-> w, height |-> h,
   fileSize |-> s]

\* The values v a derivative key maps to.
DerivativeInfos ==
  { DV(U_a,   <<>>, <<>>, 4032, 3024, 0),
    DV(U_c,   <<>>, <<>>, MIN_LONG_EDGE, 1, MIN_FILESIZE_BYTES),
    DV(U_c,   <<>>, <<>>, MIN_LONG_EDGE - 1, MIN_LONG_EDGE - 1, 0),
    DV(U_a,   <<>>, <<>>, 4032, 3024, MIN_FILESIZE_BYTES - 1),
    DV(U_mov, <<>>, <<>>, 0, 0, 0),
    DV(U_mov, <<>>, <<>>, 1920, 1080, MIN_FILESIZE_BYTES - 1),
    DV(U_low, <<>>, <<>>, 4032, 3024, 0),
    DV(U_abs, N_poster, <<>>, 4032, 3024, 0),
    DV(U_abs, <<>>, T_tile, 4032, 3024, 0),
    DV(U_abs, <<>>, <<>>, 0, 0, 2 * MIN_FILESIZE_BYTES),
    DV(<<>>,  <<>>, <<>>, 4032, 3024, 0) }

Derivatives ==
  { [key |-> k, url |-> v.url, fileName |-> v.fileName,
     derivativeType |-> v.derivativeType, width |-> v.width,
     height |-> v.height, fileSize |-> v.fileSize] :
      k \in DerivativeKeys, v \in DerivativeInfos }

\* asset["derivatives"].items(): the keys of a dictionary are distinct
DerivativeLists ==
  UNION { { s \in [1..n -> Derivatives] :
              \A i, j \in 1..n : i # j => s[i].key # s[j].key } :
          n \in 0..MaxDerivs }

\* (url_location, url_path) of an asset
Locations ==
  { << <<>>, <<>> >>, << L_host, U_a >>, << L_low, U_a >>, << L_host, U_low >>,
    << <<>>, U_c >>, << L_host, U_c >> }

Assets ==
  { [url_location |-> lp[1], url_path |-> lp[2], derivatives |-> ds] :
      lp \in Locations, ds \in DerivativeLists }

(***************************************************************************)
(* The destination directory                                               *)
(***************************************************************************)
\* The most URLs fetch_album_media returns in the model.
MaxUrls == 2

\* max_files ranges over 0..MaxFilesCfg.
MaxFilesCfg == 2

\* The chunks of a body that arrive before a transfer fails.
ChunksBeforeFailure == 1

\* The modification times of the entries a run finds in the directory.
OldMtimes == {1, 2}

Newest(S) == CHOOSE m \in S : \A n \in S : n <= m

PART == <<".","p","a","r","t">>

INDEX == <<"i","n","d","e","x",".","j","s","o","n">>

\* album_cfg.get('index_filename', 'index.json')
index_filename == INDEX

F_a == <<"a",".","j","p","g">>

F_b == <<"b",".","j","p","g">>

F_c == <<"c",".","j","p","g">>

\* An entry the sync never writes: a file, a subdirectory, or a symbolic
\* link to a directory elsewhere.
F_z == <<"z">>

URL_a ==
  <<"h","t","t","p","s",":","/","/","h","/","a",".","j","p","g","?","t","=","1">>

URL_b == <<"h","t","t","p","s",":","/","/","h","/","d","/","b",".","j","p","g">>

UrlPool == { URL_a, URL_b }

\* What re.search(r'filename\*?=([^;]+)', cd) captures in the response's
\* Content-Disposition header; empty when the header is absent or has no
\* filename.
CD_c == <<"\"","c",".","j","p","g","\"">>

DispositionPool == { <<>>, CD_c }

\* The lengths of the bodies a server sends.
BodyLengths == { MIN_FILESIZE_BYTES - 1, MIN_FILESIZE_BYTES }

\* The Content-Length header of the HEAD response as _content_length reads
\* it: absent, unparsable and "0" all read 0.
DeclaredLengths == { 0, 1, MIN_FILESIZE_BYTES - 1, MIN_FILESIZE_BYTES }

Names ==
  { F_a, F_b, F_c, F_a \o PART, F_b \o PART, F_c \o PART, INDEX, F_z }

Absent == [kind |-> "none", mtime |-> 0, size |-> 0, content |-> <<>>]

File(m, n, c) == [kind |-> "file", mtime |-> m, size |-> n, content |-> c]

\* os.listdir(dest_dir)
listdir(d) == { n \in Names : d[n].kind # "none" }

\* os.path.isfile follows symbolic links
isfile(d, n) == d[n].kind = "file"

\* os.remove(path) raises for a directory and unlinks anything else
CanRemove(d, n) == d[n].kind \in {"file", "dirlink"}

Ledger(d) ==
  IF d[index_filename].kind = "file" THEN d[index_filename].content ELSE <<>>

(***************************************************************************)
(* download_file                                                           *)
(***************************************************************************)
NoProbe == [kind |-> "none", cl |-> 0]

NoFetch ==
  [url |-> <<>>, probe |-> NoProbe, filename |-> <<>>, total_bytes |-> 0,
   body |-> 0]

NoReturn == [how |-> "none", probe |-> NoProbe]

\* requests.head: it raises, or answers with head.ok false, or with head.ok
\* true and the length _content_length reads.
ProbeOutcomes ==
  { [kind |-> "raised", cl |-> 0], [kind |-> "not_ok", cl |-> 1] }
    \cup { [kind |-> "ok", cl |-> n] : n \in DeclaredLengths }

\* The pre-flight gate without the test of head.ok (line 237)
HeadRejectsAnyStatus(probe) ==
  probe.cl # 0 /\ probe.cl < MIN_FILESIZE_BYTES

\* lines 237-241: the pre-flight gate rejects
HeadRejects(probe) ==
  probe.kind = "ok" /\ probe.cl # 0 /\ probe.cl < MIN_FILESIZE_BYTES

\* lines 249-255
DerivedFilename(url, cd) ==
  IF cd # <<>> THEN Basename(StripQuotes(cd))
  ELSE Basename(BeforeFirst(url, "?"))

\* line 396: the name sync_album records for a successful download
RecordedFilename(url) == Basename(BeforeFirst(url, "?"))

\* download_file with the handler of lines 301-303 missing: a failure ends
\* sync_album.
ReturnRaisesOnFailure(ok, how, probe) ==
  /\ last' = [how |-> how, probe |-> probe]
  /\ downloaded_filenames' =
       IF ok THEN Append(downloaded_filenames, RecordedFilename(media_urls[idx]))
       ELSE downloaded_filenames
  /\ idx' = IF ok THEN idx + 1 ELSE idx
  /\ fetch' = NoFetch
  /\ clock' = clock + 2
  /\ pc' = IF ~ok THEN "raised"
           ELSE IF idx + 1 > Len(media_urls) THEN "prune" ELSE "loop"

\* download_file returns to the loop of sync_album (lines 394-397).  The
\* files of one call are written at clock, its ledger at clock + 1, and the
\* next call's later.
Return(ok, how, probe) ==
  /\ last' = [how |-> how, probe |-> probe]
  /\ downloaded_filenames' =
       IF ok THEN Append(downloaded_filenames, RecordedFilename(media_urls[idx]))
       ELSE downloaded_filenames
  /\ idx' = idx + 1
  /\ fetch' = NoFetch
  /\ clock' = clock + 2
  /\ pc' = IF idx + 1 > Len(media_urls) THEN "prune" ELSE "loop"

\* lines 394-395, 230-244: the call, and the HEAD probe
DownloadProbe ==
  /\ pc = "loop"
  /\ idx <= Len(media_urls)
  /\ attempts' = [attempts EXCEPT ![idx] = @ + 1]
  /\ \E probe \in ProbeOutcomes :
       IF HeadRejects(probe)
         THEN Return(FALSE, "head_reject", probe)
         ELSE /\ fetch' = [NoFetch EXCEPT !.url = media_urls[idx], !.probe = probe]
              /\ pc' = "get"
              /\ UNCHANGED << downloaded_filenames, idx, clock, last >>
  /\ UNCHANGED << selVars, media_urls, dir, keep_days, max_files,
                  mirror_missing, cutoff, ledger0, accepted, before >>

\* lines 246-247: requests.get or raise_for_status raises
DownloadGetFails ==
  /\ pc = "get"
  /\ Return(FALSE, "network_get", NoProbe)
  /\ UNCHANGED << selVars, media_urls, dir, keep_days, max_files,
                  mirror_missing, cutoff, attempts, ledger0, accepted, before >>

\* lines 246-262: the response arrives, the name is derived and the
\* temporary file is opened for writing
DownloadGet ==
  /\ pc = "get"
  /\ \E cd \in DispositionPool, body \in BodyLengths :
       LET filename == DerivedFilename(fetch.url, cd)
       IN  /\ fetch' = [fetch EXCEPT !.probe = NoProbe, !.filename = filename,
                                     !.body = body]
           /\ dir' = [dir EXCEPT ![filename \o PART] = File(clock, 0, <<>>)]
  /\ pc' = "stream"
  /\ UNCHANGED << selVars, media_urls, idx, clock, keep_days, max_files,
                  mirror_missing, cutoff, downloaded_filenames, attempts,
                  ledger0, accepted, before, last >>

\* lines 263-266: the temporary file after n more bytes were written
Written(d, n) ==
  [d EXCEPT ![fetch.filename \o PART] = File(clock, fetch.total_bytes + n, <<>>)]

\* lines 263-266: the loop over resp.iter_content(8192) runs to the end of
\* the body
StreamBody ==
  /\ pc = "stream"
  /\ fetch.total_bytes < fetch.body
  /\ fetch' = [fetch EXCEPT !.total_bytes = fetch.body]
  /\ dir' = Written(dir, fetch.body - fetch.total_bytes)
  /\ UNCHANGED << selVars, pc, media_urls, idx, clock, keep_days, max_files,
                  mirror_missing, cutoff, downloaded_filenames, attempts,
                  ledger0, accepted, before, last >>

\* lines 263-266, 301-303: the loop writes the chunks that arrived, then
\* iter_content raises in the middle of the transfer
StreamFails ==
  /\ pc = "stream"
  /\ fetch.total_bytes < fetch.body
  /\ ChunksBeforeFailure * CHUNK_SIZE < fetch.body
  /\ dir' = Written(dir, ChunksBeforeFailure * CHUNK_SIZE)
  /\ Return(FALSE, "network_stream", NoProbe)
  /\ UNCHANGED << selVars, media_urls, keep_days, max_files,
                  mirror_missing, cutoff, attempts, ledger0, accepted, before >>

\* lines 268-275: the post-transfer gate rejects
DownloadTooSmall ==
  /\ pc = "stream"
  /\ fetch.total_bytes = fetch.body
  /\ fetch.total_bytes < MIN_FILESIZE_BYTES
  /\ dir' = [dir EXCEPT ![fetch.filename \o PART] = Absent]
  /\ Return(FALSE, "size_reject", NoProbe)
  /\ UNCHANGED << selVars, media_urls, keep_days, max_files,
                  mirror_missing, cutoff, attempts, ledger0, accepted, before >>

\* lines 280-297: the ledger with the new entry at its head
UpdateIndex(d, filename, url, now) ==
  IF index_filename # <<>>
    THEN [d EXCEPT ![index_filename] =
            File(now, 0, << [filename |-> filename, downloaded_at |-> now,
                             url |-> url] >> \o Ledger(d))]
    ELSE d

\* line 277: os.replace(tmp_path, path)
Replace(d, filename) ==
  [d EXCEPT ![filename] = d[filename \o PART], ![filename \o PART] = Absent]

\* lines 277-299: the file is promoted and the ledger updated
DownloadAccept ==
  /\ pc = "stream"
  /\ fetch.total_bytes = fetch.body
  /\ ~(fetch.total_bytes < MIN_FILESIZE_BYTES)
  /\ dir' = UpdateIndex(Replace(dir, fetch.filename), fetch.filename,
                        fetch.url, clock + 1)
  /\ accepted' = << [filename |-> fetch.filename, url |-> fetch.url] >>
                   \o accepted
  /\ Return(TRUE, "accepted", NoProbe)
  /\ UNCHANGED << selVars, media_urls, keep_days, max_files, mirror_missing,
                  cutoff, attempts, ledger0, before >>

(***************************************************************************)
(* prune_files                                                             *)
(***************************************************************************)
Without(d, T) == [n \in Names |-> IF n \in T THEN Absent ELSE d[n]]

MaxMtime(d, T) == CHOOSE m \in { d[n].mtime : n \in T } :
                    \A n \in T : d[n].mtime <= m

\* os.remove of the names T in the order of files, which line 311 (324)
\* sorted by modification time, newest first; names of equal time stand in
\* the order os.listdir gave, which is any.  os.remove raises for a
\* directory and the loop ends there: the entries before it are gone.
RemoveSorted(d, T) ==
  LET dirs == { n \in T : ~CanRemove(d, n) }
  IN  IF dirs = {} THEN { [dir |-> Without(d, T), raised |-> FALSE] }
      ELSE LET m    == MaxMtime(d, dirs)
               must == { n \in T \ dirs : d[n].mtime > m }
               may  == { n \in T \ dirs : d[n].mtime = m }
           IN  { [dir |-> Without(d, must \cup X), raised |-> TRUE] :
                   X \in SUBSET may }

\* lines 313-318: the entries the age pass removes
AgeVictims(d) ==
  IF keep_days > 0 THEN { n \in listdir(d) : d[n].mtime < cutoff } ELSE {}

\* Lines 320-329 with the listing sorted oldest first (reverse=True missing)
CountVictimsOldestKept(d) ==
  IF max_files > 0 /\ Cardinality(listdir(d)) > max_files
    THEN { T \in SUBSET listdir(d) :
             /\ Cardinality(T) = Cardinality(listdir(d)) - max_files
             /\ \A t \in T, k \in listdir(d) \ T : d[k].mtime <= d[t].mtime }
    ELSE { {} }

\* lines 320-329: files[max_files:] of the listing sorted newest first
CountVictims(d) ==
  IF max_files > 0 /\ Cardinality(listdir(d)) > max_files
    THEN { T \in SUBSET listdir(d) :
             /\ Cardinality(T) = Cardinality(listdir(d)) - max_files
             /\ \A t \in T, k \in listdir(d) \ T : d[k].mtime >= d[t].mtime }
    ELSE { {} }

\* line 399: prune_files(dest_dir, keep_days, max_files); an OSError of
\* os.remove is not caught and ends sync_album
prune_files ==
  /\ pc = "prune"
  /\ before' = dir
  /\ \E r1 \in RemoveSorted(dir, AgeVictims(dir)) :
       IF r1.raised
         THEN dir' = r1.dir /\ pc' = "raised"
         ELSE \E T \in CountVictims(r1.dir) :
                \E r2 \in RemoveSorted(r1.dir, T) :
                  /\ dir' = r2.dir
                  /\ pc' = IF r2.raised THEN "raised" ELSE "mirror"
  /\ UNCHANGED << selVars, media_urls, idx, clock, keep_days, max_files,
                  mirror_missing, cutoff, downloaded_filenames, fetch,
                  attempts, ledger0, accepted, last >>

(***************************************************************************)
(* mirror_missing_files                                                    *)
(***************************************************************************)
SeqRange(s) == { s[i] : i \in DOMAIN s }

\* lines 402-406: the list sync_album hands to mirror_missing_files
KeepList(d) ==
  IF downloaded_filenames = <<>> THEN { n \in listdir(d) : isfile(d, n) }
  ELSE SeqRange(downloaded_filenames)

\* lines 331-342: a failing os.remove is logged and skipped
mirror_missing_files(d, current_filenames) ==
  Without(d, { n \in listdir(d) \ current_filenames : CanRemove(d, n) })

\* lines 401-406 with mirror_missing set
MirrorStep ==
  /\ pc = "mirror"
  /\ mirror_missing
  /\ before' = dir
  /\ dir' = mirror_missing_files(dir, KeepList(dir))
  /\ pc' = "done"
  /\ UNCHANGED << selVars, media_urls, idx, clock, keep_days, max_files,
                  mirror_missing, cutoff, downloaded_filenames, fetch,
                  attempts, ledger0, accepted, last >>

\* line 401 with mirror_missing not set: sync_album returns
MirrorSkip ==
  /\ pc = "mirror"
  /\ ~mirror_missing
  /\ pc' = "done"
  /\ UNCHANGED << selVars, media_urls, idx, dir, clock, keep_days, max_files,
                  mirror_missing, cutoff, downloaded_filenames, fetch,
                  attempts, ledger0, accepted, before, last >>

(***************************************************************************)
(* sync_album                                                              *)
(***************************************************************************)
\* What fetch_album_media returns: the URLs the selector returned for the
\* assets of the catalog, in the catalog's order.
UrlLists == UNION { [1..n -> UrlPool] : n \in 0..MaxUrls }

\* lines 388-393
SyncStart ==
  /\ pc = "start"
  /\ \E urls \in UrlLists :
       /\ media_urls' = urls
       /\ attempts' = [i \in 1..Len(urls) |-> 0]
       /\ pc' = IF urls = <<>> THEN "done" ELSE "loop"
  /\ idx' = 1
  /\ UNCHANGED << selVars, dir, clock, keep_days, max_files, mirror_missing,
                  cutoff, downloaded_filenames, fetch, ledger0,
                  accepted, before, last >>

\* An entry of the ledger written by an earlier run.
OldEntry == [filename |-> F_a, downloaded_at |-> 0, url |-> URL_a]

\* The directories a run finds.
InitialDirs ==
  { [n \in Names |->
       IF n = F_a THEN a ELSE IF n = F_z THEN z ELSE IF n = INDEX THEN i
       ELSE Absent] :
      a \in { Absent, File(1, MIN_FILESIZE_BYTES, <<>>) },
      z \in {Absent} \cup { [kind |-> k, mtime |-> 1, size |-> 0, content |-> <<>>] :
                              k \in {"file", "dir", "dirlink"} },
      i \in { Absent, File(Newest(OldMtimes), 0, <<OldEntry>>) } }

NoAsset == [url_location |-> <<>>, url_path |-> <<>>, derivatives |-> <<>>]

SelectorIdle == asset = NoAsset /\ selected = "no" /\ sel = NoSelection

Init ==
  /\ SelectorIdle
  /\ pc = "start"
  /\ media_urls = <<>>
  /\ idx = 1
  /\ dir \in InitialDirs
  /\ clock = Newest(OldMtimes) + 1
  /\ keep_days \in {0, 1}
  /\ cutoff \in IF keep_days = 0 THEN {0} ELSE { m + 1 : m \in OldMtimes }
  /\ max_files \in 0..MaxFilesCfg
  /\ mirror_missing \in BOOLEAN
  /\ downloaded_filenames = <<>>
  /\ fetch = NoFetch
  /\ attempts = <<>>
  /\ ledger0 = Ledger(dir)
  /\ accepted = <<>>
  /\ before = dir
  /\ last = NoReturn

Next ==
  \/ SyncStart
  \/ DownloadProbe
  \/ DownloadGetFails
  \/ DownloadGet
  \/ StreamBody
  \/ StreamFails
  \/ DownloadTooSmall
  \/ DownloadAccept
  \/ prune_files
  \/ MirrorStep
  \/ MirrorSkip

Spec == Init /\ [][Next]_vars

(***************************************************************************)
(* The selector alone                                                      *)
(***************************************************************************)
EmptyDir == [n \in Names |-> Absent]

SyncIdle ==
  /\ pc = "idle"
  /\ media_urls = <<>>
  /\ idx = 1
  /\ dir = EmptyDir
  /\ clock = 0
  /\ keep_days = 0
  /\ cutoff = 0
  /\ max_files = 0
  /\ mirror_missing = FALSE
  /\ downloaded_filenames = <<>>
  /\ fetch = NoFetch
  /\ attempts = <<>>
  /\ ledger0 = <<>>
  /\ accepted = <<>>
  /\ before = EmptyDir
  /\ last = NoReturn

SelInit ==
  /\ asset \in Assets
  /\ selected = "no"
  /\ sel = NoSelection
  /\ SyncIdle

\* lines 204-206 of fetch_album_media: the selector is applied to an asset
Select ==
  /\ selected = "no"
  /\ selected' = "yes"
  /\ sel' = Selection(asset)
  /\ UNCHANGED << asset, syncVars >>

SelNext == Select

SelSpec == SelInit /\ [][SelNext]_vars

(***************************************************************************)
(* Properties of the fetch and validator                                   *)
(***************************************************************************)
\* Written by a fetch of this run: the entries a run finds are older.
WrittenThisRun(d, n) == d[n].mtime > Newest(OldMtimes)

\* C1: at no point during or after a fetch does the destination directory
\* hold a temporary or partially written file, or a media file written by
\* the fetch that is smaller than MIN_FILESIZE_BYTES.
C1_NoTemporaryOrUndersizedFile ==
  \A n \in listdir(dir) :
    /\ ~EndsWith(n, PART)
    /\ (WrittenThisRun(dir, n) /\ n # index_filename)
         => dir[n].size >= MIN_FILESIZE_BYTES

\* C9 as claimed: the GET request is issued only when the HEAD request did
\* not succeed with a declared length from 0 up to the threshold - 1.
C9_SmallDeclaredLengthFromZeroRejected ==
  pc = "get" =>
    ~(fetch.probe.kind = "ok" /\ fetch.probe.cl \in 0..(MIN_FILESIZE_BYTES - 1))

\* C9 as amended: download_file returns at the pre-flight gate, before the
\* GET request, exactly when the HEAD request succeeded with a declared
\* length from 1 up to the threshold - 1; with a failed HEAD request, or a
\* declared length of 0, it goes on to the GET request.
C9_SmallDeclaredLengthRejected ==
  /\ pc = "get" =>
       ~(fetch.probe.kind = "ok" /\ fetch.probe.cl \in 1..(MIN_FILESIZE_BYTES - 1))
  /\ last.how = "head_reject" =>
       (last.probe.kind = "ok" /\ last.probe.cl \in 1..(MIN_FILESIZE_BYTES - 1))

\* A fetch was rejected at the pre-flight gate for a declared length just
\* below the threshold, and no temporary file was written for it.
C9_Witness ==
  /\ last.how = "head_reject"
  /\ last.probe.cl = MIN_FILESIZE_BYTES - 1
  /\ \A n \in listdir(dir) : ~WrittenThisRun(dir, n)

(***************************************************************************)
(* Properties of the album sync                                            *)
(***************************************************************************)
\* The run has ended: sync_album returned, or an exception ended it.
RunEnded == pc \in {"done", "raised"}

\* The loop of lines 394-397 is over.
LoopOver == pc \in {"prune", "mirror", "done", "raised"} /\ media_urls # <<>>

\* C6: every position of media_urls gets exactly one call of download_file:
\* a call that fails or rejects is followed by the next position or by
\* prune_files, never by the end of the run, and no position is fetched
\* twice.
C6_EveryUrlFetchedOnce ==
  /\ \A i \in DOMAIN attempts :
       attempts[i] = IF i < idx \/ (i = idx /\ pc \in {"get", "stream"})
                       THEN 1 ELSE 0
  /\ LoopOver => idx = Len(media_urls) + 1
  /\ (RunEnded /\ media_urls # <<>>) => idx = Len(media_urls) + 1
  /\ ~RunEnded => ENABLED Next

\* Two URLs: the transfer of the first failed in the middle, the second
\* was fetched and accepted after it, and prune and mirror ran.
C6_Witness ==
  /\ pc = "done"
  /\ Len(media_urls) = 2
  /\ attempts = << 1, 1 >>
  /\ last.how = "accepted"
  /\ Len(accepted) = 1
  /\ \E n \in listdir(dir) :
       EndsWith(n, PART) /\ dir[n].mtime < dir[accepted[1].filename].mtime

\* The (filename, url) pairs of a ledger.
LedgerPairs(l) ==
  [i \in DOMAIN l |-> [filename |-> l[i].filename, url |-> l[i].url]]

IsSuffix(s, t) ==
  Len(s) <= Len(t) /\ SubSeq(t, Len(t) - Len(s) + 1, Len(t)) = s

\* C3: no step loses the ledger entries of earlier runs, and when the run
\* ends the ledger holds this run's accepted downloads, most recent first,
\* followed by the entries it held before.
C3_LedgerKeepsEveryEntry ==
  /\ IsSuffix(ledger0, Ledger(dir))
  /\ pc = "done" => LedgerPairs(Ledger(dir)) = accepted \o LedgerPairs(ledger0)

\* C2: with mirroring on, no download in the round and a directory that is
\* not empty, the reconcile step leaves the set of entries as it found it.
C2_EmptyRoundMirrorsNothing ==
  ( /\ pc = "done"
    /\ mirror_missing
    /\ media_urls # <<>>
    /\ downloaded_filenames = <<>>
    /\ listdir(before) # {} )
  => listdir(dir) = listdir(before)

\* C10: with mirroring on, the keep-set holds the name under which each
\* accepted file was stored, and the reconcile step deletes none of them.
C10_MirrorKeepsDownloadedFiles ==
  ( pc = "done" /\ mirror_missing /\ accepted # <<>> ) =>
    \A i \in DOMAIN accepted :
      /\ accepted[i].filename \in SeqRange(downloaded_filenames)
      /\ before[accepted[i].filename].kind = "file"
           => dir[accepted[i].filename] = before[accepted[i].filename]

Min(a, b) == IF a <= b THEN a ELSE b

\* C4: with keep_days = 0 and max_files = N > 0, prune_files leaves exactly
\* min(N, count) of the count entries it found, unchanged, none of them
\* older than one it removed; it raises only when the directory holds a
\* subdirectory.
C4_PruneKeepsNewest ==
  /\ ( pc = "mirror" /\ keep_days = 0 /\ max_files > 0 ) =>
       /\ listdir(dir) \subseteq listdir(before)
       /\ Cardinality(listdir(dir))
            = Min(max_files, Cardinality(listdir(before)))
       /\ \A k \in listdir(dir) : dir[k] = before[k]
       /\ \A k \in listdir(dir), t \in listdir(before) \ listdir(dir) :
            before[k].mtime >= before[t].mtime
  /\ pc = "raised" => \E n \in listdir(before) : before[n].kind = "dir"

\* prune_files removed at least two entries, one of them strictly older
\* than one it kept, and kept max_files.
C4_Witness ==
  /\ pc = "mirror"
  /\ keep_days = 0
  /\ max_files > 0
  /\ Cardinality(listdir(before)) >= max_files + 2
  /\ Cardinality(listdir(dir)) = max_files
  /\ \E k \in listdir(dir), t \in listdir(before) \ listdir(dir) :
       before[k].mtime > before[t].mtime

(***************************************************************************)
(* Properties of the selector                                              *)
(***************************************************************************)
\* The derivative carries a thumbnail hint in its key, its filename hint,
\* its declared type or its resolved URL.
ThumbHinted(d, location) ==
  \/ _is_thumbish_name(d.key)
  \/ _is_thumbish_name(d.fileName)
  \/ _is_thumbish_name(d.derivativeType)
  \/ _is_thumbish_name(_full_url(location, d.url))

\* C5: whichever step returns, the URL returned is not the resolved URL of
\* a derivative that carries a thumbnail hint.
C5_NeverReturnsThumbHintedDerivative ==
  ( selected = "yes" /\ sel.url # None ) =>
    \A i \in DOMAIN asset.derivatives :
      LET d == asset.derivatives[i]
      IN  ( d.url # <<>> /\ ThumbHinted(d, asset.url_location) )
            => _full_url(asset.url_location, d.url) # sel.url

\* The position of a key, lowered, in PREFERRED_ORIGINAL_KEYS; 0 when it is
\* not there.
PreferenceRank(key) ==
  IF \E p \in DOMAIN PREFERRED_ORIGINAL_KEYS : PREFERRED_ORIGINAL_KEYS[p] = Lower(key)
    THEN CHOOSE p \in DOMAIN PREFERRED_ORIGINAL_KEYS :
           PREFERRED_ORIGINAL_KEYS[p] = Lower(key)
    ELSE 0

\* The full-size floor, written out: a video has no known size below the
\* byte threshold; anything else also has a long edge of MIN_LONG_EDGE.
FloorOf(c) ==
  IF \E ext \in VIDEO_EXTS : EndsWith(Lower(c.url), ext)
    THEN c.size = 0 \/ c.size >= MIN_FILESIZE_BYTES
    ELSE /\ (c.w >= MIN_LONG_EDGE \/ c.h >= MIN_LONG_EDGE)
         /\ (c.size = 0 \/ c.size >= MIN_FILESIZE_BYTES)

\* The derivatives that are candidates with a preferred key and meet the
\* floor.
QualifyingPreferred(a) ==
  { i \in DOMAIN a.derivatives :
      LET c == _candidate_from_derivative(a.derivatives[i], a.url_location)
      IN  c # NoCandidate /\ PreferenceRank(c.key) # 0 /\ FloorOf(c) }

\* C7: when a derivative with a preferred key meets the floor, the URL
\* returned is that of such a derivative whose key ranks highest in the
\* preference list.
C7_PreferredKeyBeatsArea ==
  ( selected = "yes" /\ QualifyingPreferred(asset) # {} ) =>
    \E i \in QualifyingPreferred(asset) :
      /\ sel.url = _full_url(asset.url_location, asset.derivatives[i].url)
      /\ \A j \in QualifyingPreferred(asset) :
           PreferenceRank(asset.derivatives[i].key)
             <= PreferenceRank(asset.derivatives[j].key)

\* The selector returned a preferred derivative although another candidate
\* that meets the floor has a larger area and another URL.
C7_Witness ==
  /\ selected = "yes"
  /\ sel.step = 1
  /\ \E i \in DOMAIN asset.derivatives :
       LET c == _candidate_from_derivative(asset.derivatives[i], asset.url_location)
       IN  /\ c # NoCandidate
           /\ PreferenceRank(c.key) = 0
           /\ FloorOf(c)
           /\ c.w * c.h > sel.cand.w * sel.cand.h
           /\ c.url # sel.url

\* C8: a candidate whose URL steps 1 or 2 return meets the floor: a video
\* has no known size below the byte threshold; anything else has a long
\* edge of at least MIN_LONG_EDGE and no known size below the threshold.
C8_ReturnedCandidateMeetsFloor ==
  ( selected = "yes" /\ sel.step \in {1, 2} ) =>
    /\ sel.url = sel.cand.url
    /\ \E i \in DOMAIN asset.derivatives :
         sel.cand = _candidate_from_derivative(asset.derivatives[i],
                                               asset.url_location)
    /\ FloorOf(sel.cand)

\* Step 2 returned a photo that sits exactly on both thresholds.
C8_Witness ==
  /\ selected = "yes"
  /\ sel.step = 2
  /\ Max(sel.cand.w, sel.cand.h) = MIN_LONG_EDGE
  /\ sel.cand.size = MIN_FILESIZE_BYTES

====
